---------------------------- MODULE Spec2Model ----------------------------
(***************************************************************************)
(* A model of KnowledgeManager (src/knowledge_manager.py): the knowledge   *)
(* base kept in memory as a JSON-like dictionary, the file it is loaded    *)
(* from and saved to, URL and document ingestion, the scrape list and the  *)
(* relevance search.                                                       *)
(*                                                                         *)
(* Python values are modelled as follows.  A str is a TLA+ string.  A list *)
(* is a sequence.  A dict with a fixed schema written by the code is a     *)
(* record; a dict whose keys are data (scraped_urls, uploaded_documents)   *)
(* is a sequence of [key, val] entries in insertion order, as Python       *)
(* iterates it.  The knowledge base itself is a function from the top-     *)
(* level keys that are present to their values, so that a store loaded     *)
(* from a file may lack keys.                                              *)
(***************************************************************************)
EXTENDS Integers, Sequences, FiniteSets, TLC

VARIABLES
    disk,       \* the knowledge file: absent, a complete document, or a partial one
    installed,  \* the optional extractor modules that were importable (lines 13-21)
    kb,         \* self.knowledge_base
    last,       \* the last completed call: its name, arguments and return value
    calls,      \* how many calls have changed, or could have changed, kb or disk
    running     \* the calls that have begun and not yet returned

vars == <<disk, installed, kb, last, calls, running>>

(***************************************************************************)
(* Strings: the str methods the code uses.                                 *)
(***************************************************************************)

Upper == "ABCDEFGHIJKLMNOPQRSTUVWXYZ"
Lowers == "abcdefghijklmnopqrstuvwxyz"

\* The lower-case letter of each upper-case letter.
LowerOf ==
    [c \in {SubSeq(Upper, i, i) : i \in 1..Len(Upper)} |->
        LET i == CHOOSE j \in 1..Len(Upper) : SubSeq(Upper, j, j) = c
        IN  SubSeq(Lowers, i, i)]

\* One character of str.lower().
LowerChar(c) == IF c \in DOMAIN LowerOf THEN LowerOf[c] ELSE c

RECURSIVE Lower(_)
\* str.lower(): character by character, the string split in halves.
Lower(s) ==
    IF Len(s) = 0 THEN ""
    ELSE IF Len(s) = 1 THEN LowerChar(s)
    ELSE LET half == Len(s) \div 2
         IN  Lower(SubSeq(s, 1, half)) \o Lower(SubSeq(s, half + 1, Len(s)))

IsSpace(c) == c \in {" ", "\n", "\t"}

RECURSIVE LStrip(_)
LStrip(s) ==
    IF s # "" /\ IsSpace(SubSeq(s, 1, 1)) THEN LStrip(Tail(s)) ELSE s

RECURSIVE RStrip(_)
RStrip(s) ==
    IF s # "" /\ IsSpace(SubSeq(s, Len(s), Len(s)))
    THEN RStrip(SubSeq(s, 1, Len(s) - 1))
    ELSE s

\* str.strip()
Strip(s) == RStrip(LStrip(s))

\* sub in s, for two str
StrIn(sub, s) ==
    \E i \in 1..(Len(s) - Len(sub) + 1) : SubSeq(s, i, i + Len(sub) - 1) = sub

\* s.startswith(prefix)
StartsWith(s, prefix) ==
    Len(s) >= Len(prefix) /\ SubSeq(s, 1, Len(prefix)) = prefix

RECURSIVE CountFrom(_, _, _)
\* The scan of str.count: leftmost match, then on from its end.
CountFrom(s, sub, i) ==
    IF i + Len(sub) - 1 > Len(s) THEN 0
    ELSE IF SubSeq(s, i, i + Len(sub) - 1) = sub
         THEN 1 + CountFrom(s, sub, i + Len(sub))
         ELSE CountFrom(s, sub, i + 1)

\* s.count(sub): non-overlapping occurrences; len(s) + 1 for the empty sub.
StrCount(s, sub) ==
    IF sub = "" THEN Len(s) + 1 ELSE CountFrom(s, sub, 1)

RECURSIVE Join(_, _)
\* sep.join(parts)
Join(sep, parts) ==
    IF parts = <<>> THEN ""
    ELSE IF Len(parts) = 1 THEN parts[1]
    ELSE parts[1] \o sep \o Join(sep, Tail(parts))

\* The first index at or after i where sub starts in s, or 0.
FindFrom(s, sub, i) ==
    LET hits == {j \in i..(Len(s) - Len(sub) + 1) : SubSeq(s, j, j + Len(sub) - 1) = sub}
    IN  IF hits = {} THEN 0 ELSE CHOOSE j \in hits : \A k \in hits : j <= k

(***************************************************************************)
(* URLs: urllib.parse as the code uses it, on absolute http(s) URLs.       *)
(***************************************************************************)

\* The index where the authority of url ends (the first "/", "?" or "#"
\* after "://"), or Len(url) + 1.
AuthorityEnd(url, from) ==
    LET stops == {j \in from..Len(url) : SubSeq(url, j, j) \in {"/", "?", "#"}}
    IN  IF stops = {} THEN Len(url) + 1
        ELSE CHOOSE j \in stops : \A k \in stops : j <= k

\* urlparse(url).scheme
UrlScheme(url) ==
    LET c == FindFrom(url, "://", 1)
    IN  IF c = 0 THEN "" ELSE SubSeq(url, 1, c - 1)

\* urlparse(url).netloc
Netloc(url) ==
    LET c == FindFrom(url, "://", 1)
    IN  IF c = 0 THEN ""
        ELSE SubSeq(url, c + 3, AuthorityEnd(url, c + 3) - 1)

\* urljoin(base, href) for an href that starts with "/": a network-path
\* reference ("//host/...") keeps only the base's scheme, an absolute path
\* keeps the base's scheme and authority.
UrlJoin(base, href) ==
    IF StartsWith(href, "//")
    THEN UrlScheme(base) \o ":" \o href
    ELSE UrlScheme(base) \o "://" \o Netloc(base) \o href

(***************************************************************************)
(* Dictionaries whose keys are data, in insertion order.                   *)
(***************************************************************************)

EmptyDict == <<>>

DictKeys(d) == {d[i].key : i \in 1..Len(d)}

DictHas(d, k) == k \in DictKeys(d)

\* d[k], for a key that is present
DictGet(d, k) == d[CHOOSE i \in 1..Len(d) : d[i].key = k].val

\* d[k] = v: a present key keeps its place, a new key goes last.
DictSet(d, k, v) ==
    IF DictHas(d, k)
    THEN [i \in 1..Len(d) |-> IF d[i].key = k THEN [key |-> k, val |-> v] ELSE d[i]]
    ELSE Append(d, [key |-> k, val |-> v])


(***************************************************************************)
(* The knowledge base and its file.                                        *)
(***************************************************************************)

\* create_default_knowledge_base()
DefaultKB ==
    [company_info |-> EmptyDict,
     services |-> EmptyDict,
     scraped_urls |-> EmptyDict,
     uploaded_documents |-> EmptyDict,
     last_updated |-> "",
     sources |-> <<>>]

\* d.get(k, default) on the knowledge base
KBGet(kbv, k, default) == IF k \in DOMAIN kbv THEN kbv[k] ELSE default

\* d[k] = v on the knowledge base, for a key that may be new
KBSet(kbv, k, v) ==
    [f \in DOMAIN kbv \cup {k} |-> IF f = k THEN v ELSE kbv[f]]

\* The knowledge file.  json.dump writes, and json.load reads back, dicts
\* with str keys, lists, str and int: each is read back as the value
\* written, dict keys in the order written.  A file is absent, holds one
\* complete document, or holds a part of one (an interrupted write).
NoFile == [state |-> "absent"]

FileOf(kbv) == [state |-> "complete", doc |-> kbv]

PartialFile == [state |-> "partial"]

\* load_knowledge_base(): the document of an existing, parseable file;
\* the default structure when the file is absent or json.load raises.
LoadKnowledgeBase(file) ==
    IF file.state = "complete" THEN file.doc ELSE DefaultKB

(***************************************************************************)
(* scrape_url: the fetched page, and the record built from it.             *)
(***************************************************************************)

MinParagraphLen == 20

\* soup.find('title').text.strip() if soup.find('title') else "No title"
PageTitle(page) ==
    IF page.title # <<>> THEN Strip(page.title[1]) ELSE "No title"

\* meta_desc.get('content', '') for the first meta name=description, if any
PageMetaDescription(page) ==
    IF page.meta # <<>>
    THEN (IF "content" \in DOMAIN page.meta[1] THEN page.meta[1].content ELSE "")
    ELSE ""

PageHeadings(page) ==
    [i \in 1..Len(page.headings) |->
        [level |-> page.headings[i].name, text |-> Strip(page.headings[i].text)]]

\* A test that keeps every paragraph that has any text.
KeepParagraphNonEmpty(text) == text # ""

\* The test of line 97 on the stripped text of one <p>.
KeepParagraph(text) == text # "" /\ Len(text) > MinParagraphLen

RECURSIVE PageParagraphs(_)
PageParagraphs(ps) ==
    IF ps = <<>> THEN <<>>
    ELSE LET text == Strip(Head(ps))
         IN  (IF KeepParagraph(text) THEN <<text>> ELSE <<>>)
                \o PageParagraphs(Tail(ps))

\* Lines 103-105: an href that starts with "/" is joined to the page's URL.
ResolveHref(url, href) ==
    IF StartsWith(href, "/") THEN UrlJoin(url, href) ELSE href

\* Line 106: base_domain in href
IsInternal(base_domain, href) == StrIn(base_domain, href)

RECURSIVE PageLinks(_, _)
PageLinks(url, anchors) ==
    IF anchors = <<>> THEN <<>>
    ELSE LET href == ResolveHref(url, Head(anchors).href)
         IN  (IF IsInternal(Netloc(url), href)
              THEN <<[url |-> href, text |-> Strip(Head(anchors).text)]>>
              ELSE <<>>)
                \o PageLinks(url, Tail(anchors))

\* Lines 72-110: the content dict of a page.
BuildContent(url, page) ==
    [url |-> url,
     title |-> PageTitle(page),
     meta_description |-> PageMetaDescription(page),
     headings |-> PageHeadings(page),
     paragraphs |-> PageParagraphs(page.ps),
     links |-> PageLinks(url, page.anchors),
     scraped_at |-> ""]

\* A re-ingestion that extends the stored paragraphs instead of replacing
\* the record.
StoreContentMerging(d, url, content) ==
    IF DictHas(d, url)
    THEN DictSet(d, url,
                 [content EXCEPT !.paragraphs = DictGet(d, url).paragraphs \o @])
    ELSE DictSet(d, url, content)

\* A store that keeps the record a URL already has.
StoreContentIfAbsent(d, url, content) ==
    IF DictHas(d, url) THEN d ELSE DictSet(d, url, content)

\* Line 113: self.knowledge_base["scraped_urls"][url] = content
StoreContent(d, url, content) == DictSet(d, url, content)

\* An entry put in front of the others.
PrependSource(sources, entry) == <<entry>> \o sources

\* Lines 114, 164 and 216: self.knowledge_base["sources"].append(entry)
AppendSource(sources, entry) == Append(sources, entry)

UrlSource(url, content) ==
    [type |-> "url", source |-> url, title |-> content.title]

\* scrape_url(url) on knowledge base kbv when the fetch answers resp: the
\* knowledge base afterwards, the value returned and the line logged.  A
\* KeyError raised by line 113 or 114 is caught at line 125 with whatever
\* was assigned before.
ScrapeUrlOutcome(kbv, url, resp) ==
    IF resp.raises
    THEN [kb |-> kbv, ret |-> EmptyDict, log |-> "Error scraping"]
    ELSE IF resp.status # 200
    THEN [kb |-> kbv, ret |-> EmptyDict, log |-> "Failed to scrape"]
    ELSE LET content == BuildContent(url, resp.page)
         IN  IF "scraped_urls" \notin DOMAIN kbv
             THEN [kb |-> kbv, ret |-> EmptyDict, log |-> "Error scraping"]
             ELSE LET kb1 == [kbv EXCEPT !.scraped_urls = StoreContent(@, url, content)]
                  IN  IF "sources" \notin DOMAIN kb1
                      THEN [kb |-> kb1, ret |-> EmptyDict, log |-> "Error scraping"]
                      ELSE [kb |-> [kb1 EXCEPT !.sources =
                                        AppendSource(@, UrlSource(url, content))],
                            ret |-> content,
                            log |-> "Successfully scraped"]

(***************************************************************************)
(* process_pdf_document and process_docx_document.                         *)
(***************************************************************************)

Digits == "0123456789"

RECURSIVE IntStr(_)
\* str(n) for n >= 0
IntStr(n) ==
    IF n < 10 THEN SubSeq(Digits, n + 1, n + 1)
    ELSE IntStr(n \div 10) \o SubSeq(Digits, (n % 10) + 1, (n % 10) + 1)

\* Lines 135-141
PdfUnavailable(filename) ==
    [filename |-> filename,
     type |-> "pdf",
     content |-> "PDF document '" \o filename \o
        "' uploaded but text extraction not available. Please install PyPDF2 for full functionality.",
     processed_at |-> "",
     error |-> "PyPDF2 not installed"]

\* Lines 176-182
PdfFailed(filename, e) ==
    [filename |-> filename,
     type |-> "pdf",
     content |-> "PDF document '" \o filename \o "' uploaded but processing failed: " \o e,
     processed_at |-> "",
     error |-> e]

RECURSIVE PdfTexts(_, _)
\* Lines 146-151: the text of each page, or the marker of the page that raised.
PdfTexts(pages, page_num) ==
    IF page_num >= Len(pages) THEN <<>>
    ELSE LET page == pages[page_num + 1]
         IN  <<IF page.ok THEN page.text
               ELSE "[Error extracting page " \o IntStr(page_num + 1) \o ": "
                        \o page.text \o "]">>
                \o PdfTexts(pages, page_num + 1)

\* Lines 153-160
PdfDocInfo(filename, pages) ==
    LET text_content == PdfTexts(pages, 0)
    IN  [filename |-> filename,
         type |-> "pdf",
         pages |-> Len(pages),
         content |-> IF text_content # <<>> THEN Join("\n", text_content)
                     ELSE "No text content extracted",
         processed_at |-> "",
         summary |-> ""]

\* Lines 163 and 215: self.knowledge_base["uploaded_documents"][filename] = doc_info
StoreDocument(d, filename, doc_info) == DictSet(d, filename, doc_info)

\* An entry that records a document as a page.
DocumentSourceAsUrl(filename) ==
    [type |-> "url", source |-> filename, title |-> filename]

DocumentSource(filename) ==
    [type |-> "document", source |-> filename, title |-> filename]

\* str(KeyError(k))
KeyErrorStr(k) == "'" \o k \o "'"

\* process_pdf_document(file, filename): the knowledge base afterwards, the
\* value returned and the line logged.  avail: PyPDF2 was importable.
ProcessPdfOutcome(kbv, file, filename, avail) ==
    IF ~avail
    THEN [kb |-> kbv, ret |-> PdfUnavailable(filename), log |-> "not available"]
    ELSE IF ~file.readable
    THEN [kb |-> kbv, ret |-> PdfFailed(filename, file.error),
          log |-> "Error processing"]
    ELSE LET doc_info == PdfDocInfo(filename, file.pages)
         IN  IF "uploaded_documents" \notin DOMAIN kbv
             THEN [kb |-> kbv,
                   ret |-> PdfFailed(filename, KeyErrorStr("uploaded_documents")),
                   log |-> "Error processing"]
             ELSE LET kb1 == [kbv EXCEPT !.uploaded_documents =
                                    StoreDocument(@, filename, doc_info)]
                  IN  IF "sources" \notin DOMAIN kb1
                      THEN [kb |-> kb1,
                            ret |-> PdfFailed(filename, KeyErrorStr("sources")),
                            log |-> "Error processing"]
                      ELSE [kb |-> [kb1 EXCEPT !.sources =
                                        AppendSource(@, DocumentSource(filename))],
                            ret |-> doc_info,
                            log |-> "Successfully processed"]

\* Lines 190-196
DocxUnavailable(filename) ==
    [filename |-> filename,
     type |-> "docx",
     content |-> "Word document '" \o filename \o
        "' uploaded but text extraction not available. Please install python-docx for full functionality.",
     processed_at |-> "",
     error |-> "python-docx not installed"]

\* Lines 228-234
DocxFailed(filename, e) ==
    [filename |-> filename,
     type |-> "docx",
     content |-> "Word document '" \o filename \o "' uploaded but processing failed: " \o e,
     processed_at |-> "",
     error |-> e]

RECURSIVE DocxTexts(_)
\* Lines 201-203: the stripped text of each paragraph that has any.
DocxTexts(paragraphs) ==
    IF paragraphs = <<>> THEN <<>>
    ELSE (IF Strip(Head(paragraphs)) # "" THEN <<Strip(Head(paragraphs))>> ELSE <<>>)
            \o DocxTexts(Tail(paragraphs))

\* Lines 205-212
DocxDocInfo(filename, paragraphs) ==
    LET text_content == DocxTexts(paragraphs)
    IN  [filename |-> filename,
         type |-> "docx",
         paragraphs |-> Len(paragraphs),
         content |-> IF text_content # <<>> THEN Join("\n", text_content)
                     ELSE "No text content found",
         processed_at |-> "",
         summary |-> ""]

\* process_docx_document(file, filename).  avail: python-docx was importable.
ProcessDocxOutcome(kbv, file, filename, avail) ==
    IF ~avail
    THEN [kb |-> kbv, ret |-> DocxUnavailable(filename), log |-> "not available"]
    ELSE IF ~file.readable
    THEN [kb |-> kbv, ret |-> DocxFailed(filename, file.error),
          log |-> "Error processing"]
    ELSE LET doc_info == DocxDocInfo(filename, file.paragraphs)
         IN  IF "uploaded_documents" \notin DOMAIN kbv
             THEN [kb |-> kbv,
                   ret |-> DocxFailed(filename, KeyErrorStr("uploaded_documents")),
                   log |-> "Error processing"]
             ELSE LET kb1 == [kbv EXCEPT !.uploaded_documents =
                                    StoreDocument(@, filename, doc_info)]
                  IN  IF "sources" \notin DOMAIN kb1
                      THEN [kb |-> kb1,
                            ret |-> DocxFailed(filename, KeyErrorStr("sources")),
                            log |-> "Error processing"]
                      ELSE [kb |-> [kb1 EXCEPT !.sources =
                                        AppendSource(@, DocumentSource(filename))],
                            ret |-> doc_info,
                            log |-> "Successfully processed"]

(***************************************************************************)
(* save_knowledge_base and add_url_to_scrape_list.                         *)
(***************************************************************************)

\* save_knowledge_base(): open(..., 'w') raises and leaves the file as it
\* was; or it truncates the file and json.dump either completes or raises
\* part-way.  Either exception is logged and swallowed (lines 59-60).
SaveOutcome(file, kbv, how) ==
    CASE how = "ok" -> FileOf(kbv)
      [] how = "open_fails" -> file
      [] how = "write_fails" -> PartialFile

SaveHows == {"ok", "open_fails", "write_fails"}

\* Lines 58 and 60: what save_knowledge_base logs.
SaveLog(how) ==
    IF how = "ok" THEN "Knowledge base saved successfully"
    ELSE "Error saving knowledge base"

\* A test that finds no url in any list.
InListNever(list, x) == FALSE

\* url in the list (line 347)
InList(list, x) == \E i \in 1..Len(list) : list[i] = x

\* add_url_to_scrape_list(url): the knowledge base and the file afterwards,
\* and the line logged, if any.
AddUrlOutcome(kbv, file, url, how) ==
    LET kb1 == IF "urls_to_scrape" \notin DOMAIN kbv
               THEN KBSet(kbv, "urls_to_scrape", <<>>)
               ELSE kbv
    IN  IF ~InList(kb1.urls_to_scrape, url)
        THEN LET kb2 == [kb1 EXCEPT !.urls_to_scrape = Append(@, url)]
             IN  [kb |-> kb2, disk |-> SaveOutcome(file, kb2, how), log |-> SaveLog(how)]
        ELSE [kb |-> kb1, disk |-> file, log |-> ""]

(***************************************************************************)
(* search_knowledge.                                                       *)
(***************************************************************************)

\* d.get(k, default) on a stored record
RecGet(rec, k, default) == IF k \in DOMAIN rec THEN rec[k] ELSE default

TitleWeight == 3

MetaWeight == 2

HeadingWeight == 2

ParagraphWeight == 1

FilenameWeight == 2

\* Headings that stop counting at the first match.
HeadingScoreFirst(query_lower, headings) ==
    IF \E i \in 1..Len(headings) :
            StrIn(query_lower, Lower(RecGet(headings[i], "text", "")))
    THEN HeadingWeight ELSE 0

RECURSIVE HeadingScore(_, _)
\* Lines 254-256
HeadingScore(query_lower, headings) ==
    IF headings = <<>> THEN 0
    ELSE (IF StrIn(query_lower, Lower(RecGet(Head(headings), "text", "")))
          THEN HeadingWeight ELSE 0)
            + HeadingScore(query_lower, Tail(headings))

\* Paragraphs that stop counting at the first match.
ParagraphScoreFirst(query_lower, paragraphs) ==
    IF \E i \in 1..Len(paragraphs) : StrIn(query_lower, Lower(paragraphs[i]))
    THEN ParagraphWeight ELSE 0

RECURSIVE ParagraphScore(_, _)
\* Lines 259-261
ParagraphScore(query_lower, paragraphs) ==
    IF paragraphs = <<>> THEN 0
    ELSE (IF StrIn(query_lower, Lower(Head(paragraphs))) THEN ParagraphWeight ELSE 0)
            + ParagraphScore(query_lower, Tail(paragraphs))

\* Lines 243-261: relevance_score of one scraped URL
UrlScore(query_lower, content) ==
    (IF StrIn(query_lower, Lower(RecGet(content, "title", ""))) THEN TitleWeight ELSE 0)
    + (IF StrIn(query_lower, Lower(RecGet(content, "meta_description", "")))
       THEN MetaWeight ELSE 0)
    + HeadingScore(query_lower, RecGet(content, "headings", <<>>))
    + ParagraphScore(query_lower, RecGet(content, "paragraphs", <<>>))

\* A document score that counts a content match once.
DocScoreCapped(query_lower, filename, doc_info) ==
    (IF StrIn(query_lower, Lower(filename)) THEN FilenameWeight ELSE 0)
    + (IF StrIn(query_lower, Lower(RecGet(doc_info, "content", ""))) THEN 1 ELSE 0)

\* Lines 274-282: relevance_score of one uploaded document
DocScore(query_lower, filename, doc_info) ==
    (IF StrIn(query_lower, Lower(filename)) THEN FilenameWeight ELSE 0)
    + (IF StrIn(query_lower, Lower(RecGet(doc_info, "content", "")))
       THEN StrCount(Lower(RecGet(doc_info, "content", "")), query_lower)
       ELSE 0)

\* A test that lets a score of 0 through.
IsRelevantOrZero(relevance_score) == relevance_score >= 0

\* Lines 263 and 284: if relevance_score > 0
IsRelevant(relevance_score) == relevance_score > 0

RECURSIVE UrlResults(_, _)
\* Lines 242-270, over the entries of scraped_urls in order
UrlResults(query_lower, entries) ==
    IF entries = <<>> THEN <<>>
    ELSE LET url == Head(entries).key
             content == Head(entries).val
             relevance_score == UrlScore(query_lower, content)
         IN  (IF IsRelevant(relevance_score)
              THEN <<[type |-> "url",
                      source |-> url,
                      title |-> RecGet(content, "title", ""),
                      relevance |-> relevance_score,
                      content |-> content]>>
              ELSE <<>>)
                \o UrlResults(query_lower, Tail(entries))

RECURSIVE DocResults(_, _)
\* Lines 273-291, over the entries of uploaded_documents in order
DocResults(query_lower, entries) ==
    IF entries = <<>> THEN <<>>
    ELSE LET filename == Head(entries).key
             doc_info == Head(entries).val
             relevance_score == DocScore(query_lower, filename, doc_info)
         IN  (IF IsRelevant(relevance_score)
              THEN <<[type |-> "document",
                      source |-> filename,
                      title |-> filename,
                      relevance |-> relevance_score,
                      content |-> doc_info]>>
              ELSE <<>>)
                \o DocResults(query_lower, Tail(entries))

RECURSIVE InsertBeforeEqual(_, _)
\* An insertion that puts x in front of the elements that rank the same.
InsertBeforeEqual(sorted, x) ==
    IF sorted = <<>> THEN <<x>>
    ELSE IF Head(sorted).relevance > x.relevance
         THEN <<Head(sorted)>> \o InsertBeforeEqual(Tail(sorted), x)
         ELSE <<x>> \o sorted

RECURSIVE InsertByRelevance(_, _)
\* x goes behind every element that ranks at least as high.
InsertByRelevance(sorted, x) ==
    IF sorted = <<>> THEN <<x>>
    ELSE IF Head(sorted).relevance >= x.relevance
         THEN <<Head(sorted)>> \o InsertByRelevance(Tail(sorted), x)
         ELSE <<x>> \o sorted

RECURSIVE SortByRelevance(_)
\* results.sort(key=relevance, reverse=True): stable, highest first
SortByRelevance(results) ==
    IF results = <<>> THEN <<>>
    ELSE InsertByRelevance(SortByRelevance(SubSeq(results, 1, Len(results) - 1)),
                           results[Len(results)])

\* seq[:], which cuts nothing off.
SliceAll(seq, n) == seq

\* seq[:n]: the first n elements; for a negative n, all but the last -n.
SliceTo(seq, n) ==
    IF n >= 0
    THEN SubSeq(seq, 1, IF n < Len(seq) THEN n ELSE Len(seq))
    ELSE SubSeq(seq, 1, Len(seq) + n)

\* search_knowledge(query, max_results)
SearchKnowledge(kbv, query, max_results) ==
    LET query_lower == Lower(query)
        results == UrlResults(query_lower, KBGet(kbv, "scraped_urls", EmptyDict))
                    \o DocResults(query_lower, KBGet(kbv, "uploaded_documents", EmptyDict))
    IN  SliceTo(SortByRelevance(results), max_results)

(***************************************************************************)
(* get_context_for_query.                                                  *)
(***************************************************************************)

\* search_knowledge's default max_results (line 236)
DefaultMaxResults == 5

\* relevant_paragraphs[:3] (line 324)
MaxContextParagraphs == 3

\* relevant_sentences[:5] (line 338)
MaxContextSentences == 5

\* Line 302
NoContext == "No specific information found in knowledge base."

\* Line 305
ContextHeader == "Relevant information from STAFFVIRTUAL knowledge base:"

RECURSIVE Split(_, _)
\* s.split(sep), for a non-empty sep
Split(s, sep) ==
    LET i == FindFrom(s, sep, 1)
    IN  IF i = 0 THEN <<s>>
        ELSE <<SubSeq(s, 1, i - 1)>> \o Split(SubSeq(s, i + Len(sep), Len(s)), sep)

\* Every paragraph, matching or not.
AllParagraphs(query_lower, paragraphs) == paragraphs

RECURSIVE RelevantParagraphs(_, _)
\* Lines 316-320: the paragraphs that contain the query, in stored order
RelevantParagraphs(query_lower, paragraphs) ==
    IF paragraphs = <<>> THEN <<>>
    ELSE (IF StrIn(query_lower, Lower(Head(paragraphs))) THEN <<Head(paragraphs)>> ELSE <<>>)
            \o RelevantParagraphs(query_lower, Tail(paragraphs))

RECURSIVE RelevantSentences(_, _)
\* Line 334: the stripped sentences among those that contain the query
RelevantSentences(query_lower, sentences) ==
    IF sentences = <<>> THEN <<>>
    ELSE (IF StrIn(query_lower, Lower(Head(sentences)))
          THEN <<Strip(Head(sentences))>> ELSE <<>>)
            \o RelevantSentences(query_lower, Tail(sentences))

\* Lines 316-324: the paragraphs emitted for a URL result
UrlExcerpt(query_lower, content) ==
    SliceTo(RelevantParagraphs(query_lower, RecGet(content, "paragraphs", <<>>)),
            MaxContextParagraphs)

\* Lines 331-338: the sentences emitted for a document result
DocExcerpt(query_lower, doc_info) ==
    SliceTo(RelevantSentences(query_lower, Split(RecGet(doc_info, "content", ""), ".")),
            MaxContextSentences)

\* Lines 308-324: what one URL result appends to context_parts
UrlBlock(query_lower, result) ==
    LET content == result.content
        excerpt == UrlExcerpt(query_lower, content)
    IN  <<"\nFrom " \o result.source \o ":",
          "Title: " \o RecGet(content, "title", "")>>
        \o (IF RecGet(content, "meta_description", "") # ""
            THEN <<"Description: " \o content.meta_description>> ELSE <<>>)
        \o (IF excerpt # <<>> THEN <<"Relevant content:">> \o excerpt ELSE <<>>)

\* Lines 326-338: what one document result appends to context_parts
DocBlock(query_lower, result) ==
    LET excerpt == DocExcerpt(query_lower, result.content)
    IN  <<"\nFrom document " \o result.source \o ":">>
        \o (IF excerpt # <<>> THEN <<"Relevant content:">> \o excerpt ELSE <<>>)

\* Lines 307-338: what each result appends, result by result
ContextBlocks(query_lower, search_results) ==
    [i \in 1..Len(search_results) |->
        IF search_results[i].type = "url"
        THEN UrlBlock(query_lower, search_results[i])
        ELSE DocBlock(query_lower, search_results[i])]

RECURSIVE Flatten(_)
Flatten(blocks) ==
    IF blocks = <<>> THEN <<>> ELSE Head(blocks) \o Flatten(Tail(blocks))

\* Lines 304-338: context_parts
ContextParts(query, search_results) ==
    <<ContextHeader>> \o Flatten(ContextBlocks(Lower(query), search_results))

\* A version without the early return of lines 301-302.
GetContextWithoutSentinel(kbv, query) ==
    Join("\n", ContextParts(query, SearchKnowledge(kbv, query, DefaultMaxResults)))

\* get_context_for_query(query)
GetContextForQuery(kbv, query) ==
    LET search_results == SearchKnowledge(kbv, query, DefaultMaxResults)
    IN  IF search_results = <<>> THEN NoContext
        ELSE Join("\n", ContextParts(query, search_results))

\* What json.load makes of a null where search_knowledge expects a string:
\* None.  It is written here as a string that no page, file or query holds.
JsonNull == "<None>"

\* Lines 246-261 on one record of scraped_urls: content.get(field, "")
\* gives None for a field that is there and holds null, the default being
\* for a field that is not there, and None.lower() raises AttributeError.
UrlRecordRaises(content) ==
    \/ RecGet(content, "title", "") = JsonNull
    \/ RecGet(content, "meta_description", "") = JsonNull
    \/ \E i \in 1..Len(RecGet(content, "headings", <<>>)) :
            RecGet(content.headings[i], "text", "") = JsonNull
    \/ \E i \in 1..Len(RecGet(content, "paragraphs", <<>>)) :
            content.paragraphs[i] = JsonNull

\* Line 281 on one record of uploaded_documents
DocRecordRaises(doc_info) == RecGet(doc_info, "content", "") = JsonNull

\* search_knowledge has no try: an exception raised in its loops leaves it.
\* get_context_for_query calls search_knowledge first (line 299), outside
\* any try, and reads no field that the search has not read before it.
SearchRaises(kbv) ==
    LET urls == KBGet(kbv, "scraped_urls", EmptyDict)
        docs == KBGet(kbv, "uploaded_documents", EmptyDict)
    IN  \/ \E i \in 1..Len(urls) : UrlRecordRaises(urls[i].val)
        \/ \E i \in 1..Len(docs) : DocRecordRaises(docs[i].val)

\* How a call of search_knowledge or get_context_for_query ends: it
\* returns ret, or the exception leaves it and reaches the caller.
QueryCall(op, arg, kbv, ret) ==
    IF SearchRaises(kbv)
    THEN [op |-> op, arg |-> arg, ret |-> <<>>, log |-> "", raised |-> "AttributeError"]
    ELSE [op |-> op, arg |-> arg, ret |-> ret, log |-> ""]

(***************************************************************************)
(* Inputs.                                                                 *)
(***************************************************************************)

\* The calls that may change the knowledge base or its file are counted,
\* and no more than this many are made.
MaxCalls == 3

\* On the event loop, where calls overlap, no more than this many calls
\* that may change the knowledge base or its file are begun.
MaxLoopCalls == 2

\* max_results ranges over -MaxResultsArg..MaxResultsArg and the default.
MaxResultsArg == 2

AboutUrl == "https://example.com/about"

TeamUrl == "https://example.com/team"

Urls == {AboutUrl, TeamUrl}

\* What BeautifulSoup finds in a page: the text of <title> if there is
\* one, the attributes of the first <meta name="description"> if there is
\* one, the h1-h6 elements, the text of each <p>, each <a href>.
PageAbout ==
    [title |-> <<" About Us\n">>,
     meta |-> <<>>,
     headings |-> <<[name |-> "h1", text |-> " Our Mission "]>>,
     ps |-> <<"We help clients grow their business online through strategy.",
              "Short.",
              "  Exactly twenty chars\n",
              "Twenty-one characters",
              "   ">>,
     anchors |-> <<[href |-> "/contact", text |-> " Contact "],
                   [href |-> "https://example.com/blog", text |-> "Blog"],
                   [href |-> "https://blog.example.com/", text |-> "Subdomain"],
                   [href |-> "https://evil.net/?ref=example.com", text |-> "Query"],
                   [href |-> "https://example.com.evil.net/", text |-> "Longer host"],
                   [href |-> "//cdn.other.org/example.com/x.js", text |-> "Path"],
                   [href |-> "https://other.org/", text |-> "Other"],
                   [href |-> "pricing.html", text |-> "Relative"],
                   [href |-> "?page=2", text |-> "Next"]>>]

PageTeam ==
    [title |-> <<>>,
     meta |-> <<[name |-> "description", content |-> "About our Strategy team"]>>,
     headings |-> <<[name |-> "h2", text |-> "Mission control"],
                    [name |-> "h3", text |-> "The mission"]>>,
     ps |-> <<"Our strategy team plans every mission in detail.",
              "Strategy is what the team does best of all.">>,
     anchors |-> <<>>]

PageBare ==
    [title |-> <<"Under construction">>,
     meta |-> <<[name |-> "description"]>>,
     headings |-> <<>>,
     ps |-> <<>>,
     anchors |-> <<>>]

Pages == {PageAbout, PageTeam, PageBare}

\* What the fetch answers: session.get or response.text() raises, or a
\* status and, for 200, the page.
Responses ==
    {[raises |-> TRUE, status |-> 0, page |-> PageBare],
     [raises |-> FALSE, status |-> 404, page |-> PageBare]}
    \cup {[raises |-> FALSE, status |-> 200, page |-> p] : p \in Pages}

Filenames == {"brief.pdf", "notes.docx"}

\* What PyPDF2 makes of the bytes: PdfReader raises, or the pages, each
\* with the text extract_text returns or the message it raises with.
PdfFiles ==
    {[readable |-> FALSE, error |-> "EOF marker not found", pages |-> <<>>],
     [readable |-> TRUE, error |-> "",
      pages |-> <<[ok |-> TRUE, text |-> "Project brief. Strategy, strategy, banana."],
                  [ok |-> FALSE, text |-> "bad stream"]>>],
     [readable |-> TRUE, error |-> "", pages |-> <<[ok |-> TRUE, text |-> ""]>>]}

\* What python-docx makes of the bytes: Document raises, or the text of
\* each paragraph.
DocxFiles ==
    {[readable |-> FALSE, error |-> "File is not a zip file", paragraphs |-> <<>>],
     [readable |-> TRUE, error |-> "",
      paragraphs |-> <<" Meeting notes ", "", "Mission: a brief strategy.">>],
     [readable |-> TRUE, error |-> "", paragraphs |-> <<"  ">>]}

Extractors == {"PyPDF2", "docx"}

\* A knowledge base without some of its top-level keys.
Without(kbv, keys) == [f \in DOMAIN kbv \ keys |-> kbv[f]]

\* The knowledge file when the process starts: none, an unparseable one,
\* and documents written by hand or by another version, which lack keys.
InitialFiles ==
    {NoFile,
     PartialFile,
     FileOf(Without(DefaultKB, {"sources", "last_updated"})),
     FileOf(Without(DefaultKB, {"scraped_urls", "uploaded_documents"}))}

Queries == {"strategy", "mission", "MISSION", "brief", "ana", "zzz_no_such_token", ""}

MaxResultsArgs == (-MaxResultsArg..MaxResultsArg) \cup {DefaultMaxResults}

(***************************************************************************)
(* The state machine: one process, one call at a time, each awaited to its *)
(* return before the next is made.                                         *)
(***************************************************************************)

\* __init__ (lines 26-28), with the modules lines 13-21 could import.
Init ==
    /\ disk \in InitialFiles
    /\ installed \in SUBSET Extractors
    /\ kb = LoadKnowledgeBase(disk)
    /\ last = [op |-> "__init__", arg |-> <<>>, ret |-> <<>>, log |-> ""]
    /\ calls = 0
    /\ running = {}

\* One more call is made.
Called ==
    /\ calls < MaxCalls
    /\ calls' = calls + 1

ScrapeUrl ==
    \E url \in Urls, resp \in Responses :
        /\ Called
        /\ LET out == ScrapeUrlOutcome(kb, url, resp)
           IN  /\ kb' = out.kb
               /\ last' = [op |-> "scrape_url",
                           arg |-> [url |-> url],
                           ret |-> out.ret,
                           log |-> out.log]
        /\ UNCHANGED <<disk, installed, running>>

ProcessPdfDocument ==
    \E filename \in Filenames, file \in PdfFiles :
        /\ Called
        /\ LET out == ProcessPdfOutcome(kb, file, filename, "PyPDF2" \in installed)
           IN  /\ kb' = out.kb
               /\ last' = [op |-> "process_pdf_document",
                           arg |-> [filename |-> filename],
                           ret |-> out.ret,
                           log |-> out.log]
        /\ UNCHANGED <<disk, installed, running>>

ProcessDocxDocument ==
    \E filename \in Filenames, file \in DocxFiles :
        /\ Called
        /\ LET out == ProcessDocxOutcome(kb, file, filename, "docx" \in installed)
           IN  /\ kb' = out.kb
               /\ last' = [op |-> "process_docx_document",
                           arg |-> [filename |-> filename],
                           ret |-> out.ret,
                           log |-> out.log]
        /\ UNCHANGED <<disk, installed, running>>

AddUrlToScrapeList ==
    \E url \in Urls, how \in SaveHows :
        /\ Called
        /\ LET out == AddUrlOutcome(kb, disk, url, how)
           IN  /\ kb' = out.kb
               /\ disk' = out.disk
               /\ last' = [op |-> "add_url_to_scrape_list",
                           arg |-> [url |-> url],
                           ret |-> <<>>,
                           log |-> out.log]
        /\ UNCHANGED <<installed, running>>

\* The process ends and a new one is constructed on the same file.
Construct ==
    /\ Called
    /\ kb' = LoadKnowledgeBase(disk)
    /\ last' = [op |-> "__init__", arg |-> <<>>, ret |-> <<>>, log |-> ""]
    /\ UNCHANGED <<disk, installed, running>>

Next ==
    \/ ScrapeUrl
    \/ ProcessPdfDocument
    \/ ProcessDocxDocument
    \/ AddUrlToScrapeList
    \/ Construct

Spec == Init /\ [][Next]_vars

(***************************************************************************)
(* Searching: the process starts on a knowledge file that holds records    *)
(* and answers queries.  The files are those earlier ingestions would have *)
(* written, and documents written by hand, whose records lack fields.      *)
(***************************************************************************)

OkResponse(page) == [raises |-> FALSE, status |-> 200, page |-> page]

PdfBrief ==
    [readable |-> TRUE, error |-> "",
     pages |-> <<[ok |-> TRUE, text |-> "Project brief. Strategy, strategy, banana."],
                 [ok |-> FALSE, text |-> "bad stream"]>>]

DocxNotes ==
    [readable |-> TRUE, error |-> "",
     paragraphs |-> <<" Meeting notes ", "", "Mission: a brief strategy.">>]

\* Ingestions, in the order they are made.
Ingestions ==
    <<[op |-> "scrape_url", key |-> AboutUrl, input |-> OkResponse(PageAbout)],
      [op |-> "scrape_url", key |-> TeamUrl, input |-> OkResponse(PageTeam)],
      [op |-> "process_pdf_document", key |-> "brief.pdf", input |-> PdfBrief],
      [op |-> "process_docx_document", key |-> "notes.docx", input |-> DocxNotes],
      [op |-> "process_docx_document", key |-> "Strategy.docx", input |-> DocxNotes]>>

Ingest(kbv, ing) ==
    CASE ing.op = "scrape_url" -> ScrapeUrlOutcome(kbv, ing.key, ing.input).kb
      [] ing.op = "process_pdf_document" ->
            ProcessPdfOutcome(kbv, ing.input, ing.key, TRUE).kb
      [] ing.op = "process_docx_document" ->
            ProcessDocxOutcome(kbv, ing.input, ing.key, TRUE).kb

RECURSIVE IngestAll(_, _, _)
\* The knowledge base after the first n ingestions whose index is in chosen.
IngestAll(kbv, n, chosen) ==
    IF n = 0 THEN kbv
    ELSE LET before == IngestAll(kbv, n - 1, chosen)
         IN  IF n \in chosen THEN Ingest(before, Ingestions[n]) ELSE before

\* A document written by hand: no sources, records without some fields.
LegacyKB ==
    [scraped_urls |->
        <<[key |-> TeamUrl,
           val |-> [url |-> TeamUrl,
                    headings |-> <<[level |-> "h1"],
                                   [level |-> "h2", text |-> "Strategy"]>>,
                    paragraphs |-> <<"strategy", "Strategy and strategy", "Bananas">>]],
          [key |-> AboutUrl,
           val |-> [url |-> AboutUrl, title |-> "Mission brief"]]>>,
     uploaded_documents |->
        <<[key |-> "Strategy Brief.PDF", val |-> [type |-> "pdf"]],
          [key |-> "banana.txt", val |-> [content |-> "Banana bandana. Anana"]]>>]

\* A larger store: six records that match "strategy", a page with more
\* matching paragraphs than a context quotes, the first of its paragraphs
\* not matching, and a document with more matching sentences than a
\* context quotes.
LongKB ==
    [scraped_urls |->
        <<[key |-> "https://example.com/services",
           val |-> [url |-> "https://example.com/services",
                    title |-> "Services",
                    meta_description |-> "",
                    headings |-> <<>>,
                    paragraphs |-> <<"Welcome to the agency page.",
                                     "Strategy comes first here.",
                                     "Then content strategy.",
                                     "No match in this one.",
                                     "Also media STRATEGY work.",
                                     "And a strategy review.">>,
                    links |-> <<>>,
                    scraped_at |-> ""]],
          [key |-> "https://example.com/blog",
           val |-> [url |-> "https://example.com/blog",
                    title |-> "Strategy blog",
                    meta_description |-> "Posts on strategy",
                    headings |-> <<>>,
                    paragraphs |-> <<"Nothing to quote in this one.">>,
                    links |-> <<>>,
                    scraped_at |-> ""]],
          [key |-> "https://example.com/jobs",
           val |-> [url |-> "https://example.com/jobs",
                    title |-> "Jobs",
                    meta_description |-> "",
                    headings |-> <<[level |-> "h1", text |-> "Strategy lead"]>>,
                    paragraphs |-> <<>>,
                    links |-> <<>>,
                    scraped_at |-> ""]]>>,
     uploaded_documents |->
        <<[key |-> "plan.pdf",
           val |-> [filename |-> "plan.pdf", type |-> "pdf", pages |-> 1,
                    content |-> "Strategy a. Budget. strategy b.\n Strategy c. strategy d. strategy e. strategy f",
                    processed_at |-> "", summary |-> ""]],
          [key |-> "memo.docx",
           val |-> [filename |-> "memo.docx", type |-> "docx", paragraphs |-> 1,
                    content |-> "A memo on strategy",
                    processed_at |-> "", summary |-> ""]],
          [key |-> "strategy.docx",
           val |-> [filename |-> "strategy.docx", type |-> "docx", paragraphs |-> 1,
                    content |-> "No text content found",
                    processed_at |-> "", summary |-> ""]]>>,
     sources |-> <<>>]

SearchFiles ==
    {FileOf(IngestAll(DefaultKB, Len(Ingestions), chosen)) :
        chosen \in SUBSET (1..Len(Ingestions))}
    \cup {FileOf(LegacyKB), FileOf(Without(LegacyKB, {"scraped_urls"})), FileOf(LongKB)}

SearchInit ==
    /\ disk \in SearchFiles
    /\ installed = Extractors
    /\ kb = LoadKnowledgeBase(disk)
    /\ last = [op |-> "__init__", arg |-> <<>>, ret |-> <<>>, log |-> ""]
    /\ calls = 0
    /\ running = {}

Search ==
    \E query \in Queries, max_results \in MaxResultsArgs :
        /\ last' = QueryCall("search_knowledge",
                              [query |-> query, max_results |-> max_results],
                              kb, SearchKnowledge(kb, query, max_results))
        /\ UNCHANGED <<disk, installed, kb, calls, running>>

GetContext ==
    \E query \in Queries :
        /\ last' = QueryCall("get_context_for_query", [query |-> query],
                              kb, GetContextForQuery(kb, query))
        /\ UNCHANGED <<disk, installed, kb, calls, running>>

SearchNext ==
    \/ Search
    \/ GetContext

SpecSearch == SearchInit /\ [][SearchNext]_vars

(***************************************************************************)
(* The event loop: calls that overlap.  scrape_url is a coroutine that     *)
(* gives up the loop where it awaits (session.get, line 66, and            *)
(* response.text(), line 68), and other calls run in between; from line 69 *)
(* to its return nothing is awaited.  The other methods are synchronous:   *)
(* nothing else runs on the loop while one of them does.  The write of     *)
(* save_knowledge_base takes two steps as seen from outside the process:   *)
(* open(..., 'w') empties the file, json.dump fills it.  Another process   *)
(* may load the file at any moment.                                        *)
(***************************************************************************)

\* What a method without a return statement returns.
None == <<>>

\* A summary that takes the number of sources to be the number of records.
GetKnowledgeSummaryCounting(kbv) ==
    [scraped_urls |-> Len(KBGet(kbv, "scraped_urls", EmptyDict)),
     uploaded_documents |-> Len(KBGet(kbv, "uploaded_documents", EmptyDict)),
     total_sources |-> Len(KBGet(kbv, "scraped_urls", EmptyDict))
                        + Len(KBGet(kbv, "uploaded_documents", EmptyDict)),
     last_updated |-> KBGet(kbv, "last_updated", "Never")]

\* get_knowledge_summary()
GetKnowledgeSummary(kbv) ==
    [scraped_urls |-> Len(KBGet(kbv, "scraped_urls", EmptyDict)),
     uploaded_documents |-> Len(KBGet(kbv, "uploaded_documents", EmptyDict)),
     total_sources |-> Len(KBGet(kbv, "sources", <<>>)),
     last_updated |-> KBGet(kbv, "last_updated", "Never")]

\* The file after open(..., 'w') and before anything is written: empty,
\* which json.load rejects.
Truncated == PartialFile

\* The call is suspended at an await.
Suspended(t) == t.at \in {"get", "text"}

\* No synchronous call is in progress: the loop may start or resume a call.
LoopFree == \A t \in running : Suspended(t)

\* What response.text() gives: it raises, or the page.
Bodies ==
    {[raises |-> TRUE, status |-> 200, page |-> PageBare]}
    \cup {OkResponse(p) : p \in {PageAbout, PageBare}}

LoopQueries == {"strategy"}

\* One more call is begun on the loop.
LoopCalled ==
    /\ calls < MaxLoopCalls
    /\ calls' = calls + 1

\* A document another program wrote: it has every top-level key, and one
\* page record whose title is null.
NullTitleKB ==
    [DefaultKB EXCEPT
        !.scraped_urls =
            <<[key |-> TeamUrl,
               val |-> [url |-> TeamUrl,
                        title |-> JsonNull,
                        meta_description |-> "",
                        headings |-> <<>>,
                        paragraphs |-> <<"Our strategy team is here.">>,
                        links |-> <<>>,
                        scraped_at |-> ""]]>>,
        !.sources = <<[type |-> "url", source |-> TeamUrl, title |-> JsonNull]>>]

\* The knowledge file the process on the loop starts on: none, one that
\* lacks top-level keys, one with a null in a record.
LoopFiles ==
    {NoFile,
     FileOf(Without(DefaultKB, {"sources", "last_updated"})),
     FileOf(NullTitleKB)}

LoopInit ==
    /\ disk \in LoopFiles
    /\ installed = Extractors
    /\ kb = LoadKnowledgeBase(disk)
    /\ last = [op |-> "__init__", arg |-> <<>>, ret |-> <<>>, log |-> ""]
    /\ calls = 0
    /\ running = {}

\* scrape_url(url) is called and suspends in session.get (line 66).
ScrapeUrlCall ==
    \E url \in Urls :
        /\ LoopFree
        /\ LoopCalled
        /\ running' = running \cup
                {[id |-> calls + 1, op |-> "scrape_url", arg |-> [url |-> url], at |-> "get"]}
        /\ UNCHANGED <<disk, installed, kb, last>>

\* Lines 66-68 and 122-127: session.get raises, or answers; with a status
\* other than 200 the call returns, with 200 it suspends in response.text().
ScrapeUrlGet ==
    \E t \in running, resp \in Responses :
        /\ LoopFree
        /\ t.at = "get"
        /\ IF resp.raises \/ resp.status # 200
           THEN LET out == ScrapeUrlOutcome(kb, t.arg.url, resp)
                IN  /\ kb' = out.kb
                    /\ last' = [op |-> t.op, arg |-> t.arg, ret |-> out.ret, log |-> out.log]
                    /\ running' = running \ {t}
           ELSE /\ running' = (running \ {t}) \cup {[t EXCEPT !.at = "text"]}
                /\ UNCHANGED <<kb, last>>
        /\ UNCHANGED <<disk, installed, calls>>

\* Lines 68-121 and 125-127: response.text() raises, or gives the page,
\* which is parsed, stored and logged before the call returns.
ScrapeUrlText ==
    \E t \in running, body \in Bodies :
        /\ LoopFree
        /\ t.at = "text"
        /\ LET out == ScrapeUrlOutcome(kb, t.arg.url, body)
           IN  /\ kb' = out.kb
               /\ last' = [op |-> t.op, arg |-> t.arg, ret |-> out.ret, log |-> out.log]
        /\ running' = running \ {t}
        /\ UNCHANGED <<disk, installed, calls>>

\* What save_knowledge_base returns: it has no return statement, on the
\* path that saved (line 58) and on the path that caught the error (line 60).
SaveReturn(how) == None

\* save_knowledge_base() is called: open(..., 'w') raises, which is logged
\* and the call returns; or it empties the file and json.dump begins.
SaveKnowledgeBaseOpen ==
    \E opens \in BOOLEAN :
        /\ LoopFree
        /\ LoopCalled
        /\ IF opens
           THEN /\ disk' = Truncated
                /\ running' = running \cup
                        {[id |-> calls + 1, op |-> "save_knowledge_base",
                          arg |-> <<>>, at |-> "dump"]}
                /\ UNCHANGED last
           ELSE /\ disk' = SaveOutcome(disk, kb, "open_fails")
                /\ last' = [op |-> "save_knowledge_base",
                            arg |-> <<>>,
                            ret |-> SaveReturn("open_fails"),
                            log |-> SaveLog("open_fails")]
                /\ UNCHANGED running
        /\ UNCHANGED <<installed, kb>>

\* Lines 57-60: json.dump completes, or raises part-way; either way the
\* call that was saving returns.
SaveKnowledgeBaseDump ==
    \E t \in running, how \in {"ok", "write_fails"} :
        /\ t.at = "dump"
        /\ disk' = SaveOutcome(disk, kb, how)
        /\ last' = [op |-> t.op, arg |-> t.arg, ret |-> SaveReturn(how), log |-> SaveLog(how)]
        /\ running' = running \ {t}
        /\ UNCHANGED <<installed, kb, calls>>

\* add_url_to_scrape_list(url): lines 344-348, and the save of line 349 up
\* to its open when the URL was new.
AddUrlToScrapeListCall ==
    \E url \in Urls, opens \in BOOLEAN :
        /\ LoopFree
        /\ LoopCalled
        /\ LET out == AddUrlOutcome(kb, disk, url, "open_fails")
               saves == ~InList(KBGet(kb, "urls_to_scrape", <<>>), url)
           IN  /\ kb' = out.kb
               /\ IF saves /\ opens
                  THEN /\ disk' = Truncated
                       /\ running' = running \cup
                                {[id |-> calls + 1, op |-> "add_url_to_scrape_list",
                                  arg |-> [url |-> url], at |-> "dump"]}
                       /\ UNCHANGED last
                  ELSE /\ disk' = out.disk
                       /\ last' = [op |-> "add_url_to_scrape_list",
                                   arg |-> [url |-> url],
                                   ret |-> None,
                                   log |-> out.log]
                       /\ UNCHANGED running
        /\ UNCHANGED installed

LoopProcessPdfDocument == LoopFree /\ calls < MaxLoopCalls /\ ProcessPdfDocument

LoopProcessDocxDocument == LoopFree /\ calls < MaxLoopCalls /\ ProcessDocxDocument

LoopSearch ==
    \E query \in LoopQueries :
        /\ LoopFree
        /\ last' = QueryCall("search_knowledge",
                              [query |-> query, max_results |-> DefaultMaxResults],
                              kb, SearchKnowledge(kb, query, DefaultMaxResults))
        /\ UNCHANGED <<disk, installed, kb, calls, running>>

LoopGetContext ==
    \E query \in LoopQueries :
        /\ LoopFree
        /\ last' = QueryCall("get_context_for_query", [query |-> query],
                              kb, GetContextForQuery(kb, query))
        /\ UNCHANGED <<disk, installed, kb, calls, running>>

GetKnowledgeSummaryCall ==
    /\ LoopFree
    /\ last' = [op |-> "get_knowledge_summary",
                arg |-> <<>>,
                ret |-> GetKnowledgeSummary(kb),
                log |-> ""]
    /\ UNCHANGED <<disk, installed, kb, calls, running>>

\* What load_knowledge_base logs (line 39), if anything.
LoadLog(file) ==
    IF file.state = "partial" THEN "Error loading knowledge base" ELSE ""

\* Another process loads the knowledge file (lines 32-40) as it is now.
LoadByReader ==
    /\ last' = [op |-> "load_knowledge_base",
                arg |-> <<>>,
                ret |-> LoadKnowledgeBase(disk),
                log |-> LoadLog(disk)]
    /\ UNCHANGED <<disk, installed, kb, calls, running>>

LoopNext ==
    \/ ScrapeUrlCall
    \/ ScrapeUrlGet
    \/ ScrapeUrlText
    \/ LoopProcessPdfDocument
    \/ LoopProcessDocxDocument
    \/ AddUrlToScrapeListCall
    \/ SaveKnowledgeBaseOpen
    \/ SaveKnowledgeBaseDump
    \/ LoopSearch
    \/ LoopGetContext
    \/ GetKnowledgeSummaryCall
    \/ LoadByReader

SpecLoop == LoopInit /\ [][LoopNext]_vars

(***************************************************************************)
(* Properties.                                                             *)
(***************************************************************************)

ScrapedUrls == KBGet(kb, "scraped_urls", EmptyDict)

UploadedDocuments == KBGet(kb, "uploaded_documents", EmptyDict)

IsDocumentCall(call) ==
    call.op \in {"process_pdf_document", "process_docx_document"}

\* The value returned is the empty dict.
ReturnedEmpty(call) == DOMAIN call.ret = {}

\* C1: whenever scrape_url returns the empty result, whether for a status
\* other than 200 or for an error raised while fetching, parsing or
\* storing, the knowledge base is exactly as it was before the call.
C1_FailedScrapeChangesNothing ==
    [][(last'.op = "scrape_url" /\ calls' = calls + 1 /\ ReturnedEmpty(last'))
            => kb' = kb]_vars

\* The non-empty prefixes of name.
Prefixes(name) == {SubSeq(name, 1, n) : n \in 1..Len(name)}

\* The place of the result for source among the results, or 0.
ResultIndex(results, source) ==
    IF \E i \in 1..Len(results) : results[i].source = source
    THEN CHOOSE i \in 1..Len(results) : results[i].source = source
    ELSE 0

\* C2: after every document ingestion attempt for a filename, failed ones
\* included, uploaded_documents holds a record under that filename; after a
\* failed attempt the stored record has its error and a placeholder
\* content, and a search for a part of the filename returns the document
\* with relevance at least 2.
C2_DocumentAlwaysRecorded ==
    IsDocumentCall(last) =>
        LET filename == last.arg.filename
        IN  /\ DictHas(UploadedDocuments, filename)
            /\ "error" \in DOMAIN last.ret =>
                LET stored == DictGet(UploadedDocuments, filename)
                IN  /\ RecGet(stored, "error", "") # ""
                    /\ RecGet(stored, "content", "") # ""
                    /\ \A part \in Prefixes(filename) :
                        LET results == SearchKnowledge(kb, part, DefaultMaxResults)
                            i == ResultIndex(results, filename)
                        IN  i > 0 /\ results[i].relevance >= 2

\* The call changed the knowledge base and reported no failure.
SucceededMutation(call) ==
    \/ call.op = "scrape_url" /\ ~ReturnedEmpty(call)
    \/ IsDocumentCall(call) /\ "error" \notin DOMAIN call.ret
    \/ call.op = "add_url_to_scrape_list" /\ call.log = SaveLog("ok")

\* C3: after every successful mutating call (URL ingestion, document
\* ingestion, scrape list update) the knowledge file holds the knowledge
\* base in memory, so that loading it yields what was just written.
C3_SavedAfterEveryMutation ==
    SucceededMutation(last) =>
        /\ disk.state = "complete"
        /\ LoadKnowledgeBase(disk) = kb

\* C4: search_knowledge(q, n) returns at most max(n, 0) results, for every
\* integer n; none for n <= 0.
C4_AtMostMaxResults ==
    last.op = "search_knowledge" =>
        Len(last.ret) <= (IF last.arg.max_results > 0 THEN last.arg.max_results ELSE 0)

RECURSIVE Labels(_)
\* The labels of a host name, split at the dots.
Labels(host) ==
    LET dot == FindFrom(host, ".", 1)
    IN  IF dot = 0 THEN <<host>>
        ELSE <<SubSeq(host, 1, dot - 1)>> \o Labels(SubSeq(host, dot + 1, Len(host)))

\* The registrable domain of a URL: the last two labels of its host.
RegistrableDomain(url) ==
    LET labels == Labels(Netloc(url))
    IN  IF Len(labels) <= 2 THEN labels
        ELSE SubSeq(labels, Len(labels) - 1, Len(labels))

\* C5: every link stored for an ingested page has the registrable domain of
\* the page's URL, wherever else that domain occurs in the link.
C5_LinksStayOnDomain ==
    \A i \in 1..Len(ScrapedUrls) :
        LET content == ScrapedUrls[i].val
        IN  \A j \in 1..Len(content.links) :
                RegistrableDomain(content.links[j].url) = RegistrableDomain(ScrapedUrls[i].key)

\* The records a single ingestion of url into an empty knowledge base
\* stores, one for each page.
SingleIngestionRecords(url) ==
    {ScrapeUrlOutcome(DefaultKB, url, OkResponse(page)).ret : page \in Pages}

\* C6: ingesting a URL again replaces its record: the stored record is the
\* one a single ingestion produces, the number of records does not grow,
\* and with identical content scraped_urls is left as it was.
C6_ReingestionReplaces ==
    [][(last'.op = "scrape_url" /\ calls' = calls + 1 /\ ~ReturnedEmpty(last')) =>
            LET url == last'.arg.url
                before == ScrapedUrls
                after == KBGet(kb', "scraped_urls", EmptyDict)
            IN  /\ DictHas(after, url)
                /\ DictGet(after, url) = last'.ret
                /\ DictGet(after, url) \in SingleIngestionRecords(url)
                /\ DictHas(before, url) => Len(after) = Len(before)
                /\ (DictHas(before, url) /\ DictGet(before, url) = last'.ret)
                        => after = before]_vars

\* The same page was ingested twice for one URL, and nothing else.
C6_Witness ==
    /\ last.op = "scrape_url"
    /\ ~ReturnedEmpty(last)
    /\ Len(ScrapedUrls) = 1
    /\ DictGet(ScrapedUrls, last.arg.url) = last.ret
    /\ KBGet(kb, "sources", <<>>) =
            <<UrlSource(last.arg.url, last.ret), UrlSource(last.arg.url, last.ret)>>

\* Case-insensitive containment, as the claims word it.
ContainsQuery(query, text) == StrIn(Lower(query), Lower(text))

\* No scored field of any stored record contains the query.
NothingMatches(query) ==
    /\ \A i \in 1..Len(ScrapedUrls) :
        LET content == ScrapedUrls[i].val
            headings == RecGet(content, "headings", <<>>)
            paragraphs == RecGet(content, "paragraphs", <<>>)
        IN  /\ ~ContainsQuery(query, RecGet(content, "title", ""))
            /\ ~ContainsQuery(query, RecGet(content, "meta_description", ""))
            /\ \A j \in 1..Len(headings) :
                    ~ContainsQuery(query, RecGet(headings[j], "text", ""))
            /\ \A j \in 1..Len(paragraphs) : ~ContainsQuery(query, paragraphs[j])
    /\ \A i \in 1..Len(UploadedDocuments) :
        /\ ~ContainsQuery(query, UploadedDocuments[i].key)
        /\ ~ContainsQuery(query, RecGet(UploadedDocuments[i].val, "content", ""))

\* C7: every result of search_knowledge has relevance above 0, and when no
\* scored field of any stored record contains the query, there is no result.
C7_NoZeroScoreResults ==
    last.op = "search_knowledge" =>
        /\ \A i \in 1..Len(last.ret) : last.ret[i].relevance > 0
        /\ NothingMatches(last.arg.query) => last.ret = <<>>

\* A search of a knowledge base that holds pages and documents, none of
\* which contains the query.
C7_Witness ==
    /\ last.op = "search_knowledge"
    /\ last.arg.query = "zzz_no_such_token"
    /\ last.arg.max_results = DefaultMaxResults
    /\ Len(ScrapedUrls) >= 2
    /\ Len(UploadedDocuments) >= 2
    /\ last.ret = <<>>

\* Every stored record is returned if it is relevant: nothing is cut off.
NothingCutOff(call) ==
    call.arg.max_results >= Len(ScrapedUrls) + Len(UploadedDocuments)

\* The relevance the search gave the record stored under source, 0 when
\* the record is not among the results.
RelevanceOf(results, source) ==
    LET i == ResultIndex(results, source)
    IN  IF i = 0 THEN 0 ELSE results[i].relevance

\* Paragraphs to append to a stored record.
ExtraParagraphs ==
    {"A strategy that is written down.", "MISSION", "banana ana", "", "Nothing of interest"}

\* The record with one more paragraph at the end of its paragraph list.
WithParagraph(content, paragraph) ==
    [f \in DOMAIN content \cup {"paragraphs"} |->
        IF f = "paragraphs"
        THEN Append(RecGet(content, "paragraphs", <<>>), paragraph)
        ELSE content[f]]

\* C8: appending a paragraph that contains the query to a URL record's
\* paragraphs never lowers the record's relevance for that query: it
\* raises it by exactly 1.
C8_MatchingParagraphAddsOne ==
    (last.op = "search_knowledge" /\ NothingCutOff(last)) =>
        \A i \in 1..Len(ScrapedUrls), paragraph \in ExtraParagraphs :
            ContainsQuery(last.arg.query, paragraph) =>
                UrlScore(Lower(last.arg.query),
                         WithParagraph(ScrapedUrls[i].val, paragraph))
                    = RelevanceOf(last.ret, ScrapedUrls[i].key) + 1

\* A search that found the query in two paragraphs of one page already,
\* for a query that one of the paragraphs to append contains.
C8_Witness ==
    /\ last.op = "search_knowledge"
    /\ NothingCutOff(last)
    /\ last.arg.query = "strategy"
    /\ \E paragraph \in ExtraParagraphs : ContainsQuery(last.arg.query, paragraph)
    /\ \E i \in 1..Len(ScrapedUrls) :
        /\ ParagraphScore("strategy", RecGet(ScrapedUrls[i].val, "paragraphs", <<>>)) >= 2
        /\ RelevanceOf(last.ret, ScrapedUrls[i].key) >= 2

\* 1 if the query is in the text, else 0.
Hit(query, text) == IF ContainsQuery(query, text) THEN 1 ELSE 0

\* The relevance C9 gives a URL record.
ExpectedUrlScore(query, content) ==
    LET headings == RecGet(content, "headings", <<>>)
        paragraphs == RecGet(content, "paragraphs", <<>>)
    IN  3 * Hit(query, RecGet(content, "title", ""))
        + 2 * Hit(query, RecGet(content, "meta_description", ""))
        + 2 * Cardinality({j \in 1..Len(headings) :
                            ContainsQuery(query, RecGet(headings[j], "text", ""))})
        + Cardinality({j \in 1..Len(paragraphs) : ContainsQuery(query, paragraphs[j])})

\* The record of the page with title "About Us", heading "Our Mission" and
\* one paragraph about strategy is stored.
AboutIsStored ==
    /\ DictHas(ScrapedUrls, AboutUrl)
    /\ DictGet(ScrapedUrls, AboutUrl) = BuildContent(AboutUrl, PageAbout)

\* C9: the relevance of a URL record is 3 for the title, 2 for the meta
\* description, 2 for each heading and 1 for each paragraph that contains
\* the query, whatever the case of the letters, and nothing else; a record
\* that scores 0 is no result.  The "About Us" page scores 1 for
\* "strategy" and 2 for "mission".
C9_UrlScore ==
    (last.op = "search_knowledge" /\ NothingCutOff(last)) =>
        /\ \A i \in 1..Len(ScrapedUrls) :
            RelevanceOf(last.ret, ScrapedUrls[i].key)
                = ExpectedUrlScore(last.arg.query, ScrapedUrls[i].val)
        /\ (AboutIsStored /\ last.arg.query = "strategy")
                => RelevanceOf(last.ret, AboutUrl) = 1
        /\ (AboutIsStored /\ last.arg.query = "mission")
                => RelevanceOf(last.ret, AboutUrl) = 2

\* The "About Us" page was searched for "mission" together with a page
\* that has the query in two headings, its description and a paragraph.
C9_Witness ==
    /\ last.op = "search_knowledge"
    /\ NothingCutOff(last)
    /\ last.arg.query = "mission"
    /\ AboutIsStored
    /\ RelevanceOf(last.ret, AboutUrl) = 2
    /\ \E i \in 1..Len(ScrapedUrls) : RelevanceOf(last.ret, ScrapedUrls[i].key) >= 5

\* The places where sub occurs in s.
Occurrences(s, sub) ==
    {i \in 1..(Len(s) - Len(sub) + 1) : SubSeq(s, i, i + Len(sub) - 1) = sub}

\* No two of the occurrences at these places overlap.
Disjoint(places, len) ==
    \A i, j \in places : i < j => j - i >= len

\* The number of occurrences of sub in s: the most that do not overlap.
OccurrenceCount(s, sub) ==
    LET places == Occurrences(s, sub)
    IN  IF Disjoint(places, Len(sub)) THEN Cardinality(places)
        ELSE LET counts == {Cardinality(some) : some \in
                                {c \in SUBSET places : Disjoint(c, Len(sub))}}
             IN  CHOOSE n \in counts : \A m \in counts : m <= n

\* The relevance C10 gives a document.
ExpectedDocScore(query, filename, doc_info) ==
    2 * Hit(query, filename)
    + OccurrenceCount(Lower(RecGet(doc_info, "content", "")), Lower(query))

\* C10: the relevance of a document is 2 if its filename contains the
\* query, whatever the case of the letters, plus the number of occurrences
\* of the query in its lower-cased content, however many; a document that
\* matches by its filename alone scores 2, one that scores 0 is no result.
C10_DocScore ==
    (last.op = "search_knowledge" /\ NothingCutOff(last)) =>
        \A i \in 1..Len(UploadedDocuments) :
            LET filename == UploadedDocuments[i].key
                doc_info == UploadedDocuments[i].val
                relevance == RelevanceOf(last.ret, filename)
            IN  /\ relevance = ExpectedDocScore(last.arg.query, filename, doc_info)
                /\ (ContainsQuery(last.arg.query, filename)
                    /\ ~ContainsQuery(last.arg.query, RecGet(doc_info, "content", "")))
                        => relevance = 2

\* One document has the query in its filename and three times in its
\* content, another in its filename alone.
C10_Witness ==
    /\ last.op = "search_knowledge"
    /\ NothingCutOff(last)
    /\ last.arg.query = "ana"
    /\ \E i \in 1..Len(last.ret) :
        last.ret[i].type = "document" /\ last.ret[i].relevance = 5
    /\ \E i \in 1..Len(UploadedDocuments) :
        DocScore("brief", UploadedDocuments[i].key, UploadedDocuments[i].val) = 2

(***************************************************************************)
(* The order of the results.                                               *)
(***************************************************************************)

\* The records in the order search_knowledge meets them: the entries of
\* scraped_urls, then those of uploaded_documents, each in the dict's order.
EncounterOrder(kbv) ==
    LET urls == KBGet(kbv, "scraped_urls", EmptyDict)
        docs == KBGet(kbv, "uploaded_documents", EmptyDict)
    IN  [i \in 1..Len(urls) |-> [type |-> "url", source |-> urls[i].key]]
        \o [i \in 1..Len(docs) |-> [type |-> "document", source |-> docs[i].key]]

\* The place of a result's record in the encounter order.
Place(order, result) ==
    CHOOSE i \in 1..Len(order) :
        order[i] = [type |-> result.type, source |-> result.source]

\* C11: the results of search_knowledge are ordered by relevance, highest
\* first, and two results of equal relevance are in encounter order: URL
\* records before document records, and within each kind in the order the
\* dict iterates its keys.
C11_OrderedAndStable ==
    last.op = "search_knowledge" =>
        LET results == last.ret
            order == EncounterOrder(kb)
        IN  \A i, j \in 1..Len(results) :
                i < j =>
                    \/ results[i].relevance > results[j].relevance
                    \/ /\ results[i].relevance = results[j].relevance
                       /\ Place(order, results[i]) < Place(order, results[j])
                       /\ results[i].type = "document" => results[j].type = "document"

\* A search returned two results of equal relevance, and a result that
\* ranks higher than one met before it.
C11_Witness ==
    /\ last.op = "search_knowledge"
    /\ \E i, j \in 1..Len(last.ret) :
            /\ i < j
            /\ last.ret[i].relevance = last.ret[j].relevance
    /\ \E i, j \in 1..Len(last.ret) :
            /\ i < j
            /\ last.ret[i].relevance > last.ret[j].relevance
            /\ Place(EncounterOrder(kb), last.ret[i]) > Place(EncounterOrder(kb), last.ret[j])

(***************************************************************************)
(* The paragraphs of an ingested page.                                     *)
(***************************************************************************)

\* C12: no paragraph stored by an ingestion is empty or has fewer than 20
\* characters after trimming.
C12_NoShortParagraphStored ==
    \A i \in 1..Len(ScrapedUrls) :
        LET paragraphs == RecGet(ScrapedUrls[i].val, "paragraphs", <<>>)
        IN  \A j \in 1..Len(paragraphs) :
                /\ paragraphs[j] # ""
                /\ Len(Strip(paragraphs[j])) >= MinParagraphLen

\* A page with an empty paragraph and a 6-character one was ingested, and
\* its record keeps other paragraphs of that page.
C12_Witness ==
    /\ last.op = "scrape_url"
    /\ ~ReturnedEmpty(last)
    /\ last.ret = BuildContent(last.arg.url, PageAbout)
    /\ DictHas(ScrapedUrls, last.arg.url)
    /\ DictGet(ScrapedUrls, last.arg.url).paragraphs # <<>>
    /\ \E k \in 1..Len(PageAbout.ps) :
            /\ Strip(PageAbout.ps[k]) # ""
            /\ Len(Strip(PageAbout.ps[k])) < MinParagraphLen
    /\ \E k \in 1..Len(PageAbout.ps) : Strip(PageAbout.ps[k]) = ""

RECURSIVE KeptByPolicy(_)
\* The trimmed paragraphs of a page that have 20 characters or more, in
\* page order.
KeptByPolicy(ps) ==
    IF ps = <<>> THEN <<>>
    ELSE (IF Len(Strip(Head(ps))) >= MinParagraphLen THEN <<Strip(Head(ps))>> ELSE <<>>)
            \o KeptByPolicy(Tail(ps))

\* C13: an ingestion stores every paragraph of the page whose trimmed
\* length is 20 or more, exactly 20 included, in page order, and no other.
C13_EveryLongParagraphStored ==
    \A page \in Pages :
        (/\ last.op = "scrape_url"
         /\ ~ReturnedEmpty(last)
         /\ last.ret = BuildContent(last.arg.url, page))
            => /\ DictHas(ScrapedUrls, last.arg.url)
               /\ DictGet(ScrapedUrls, last.arg.url).paragraphs = KeptByPolicy(page.ps)

(***************************************************************************)
(* What document ingestion returns.                                        *)
(***************************************************************************)

\* C14: every document ingestion, with the extractor unavailable, with an
\* extractor that raises, and with a document whose pages or paragraphs all
\* extract to empty text included, returns a record whose content is a
\* non-empty string.
C14_DocumentContentNonEmpty ==
    IsDocumentCall(last) =>
        /\ "content" \in DOMAIN last.ret
        /\ last.ret.content # ""

(***************************************************************************)
(* Loading.                                                                *)
(***************************************************************************)

\* A knowledge base with every top-level key of the default structure.
WellFormed(kbv) == DOMAIN DefaultKB \subseteq DOMAIN kbv

\* The file holds a complete document of the expected top-level structure.
ExpectedStructure(file) == file.state = "complete" /\ WellFormed(file.doc)

\* C15: load_knowledge_base returns the default, empty knowledge base
\* whenever the file is absent, unparseable, or parseable but not of the
\* expected top-level structure, so that every operation runs on a
\* well-formed knowledge base.
C15_LoadFallsBackToEmpty ==
    /\ last.op = "__init__" =>
            kb = (IF ExpectedStructure(disk) THEN disk.doc ELSE DefaultKB)
    /\ WellFormed(kb)

(***************************************************************************)
(* Saving, and loading while a save is under way.                          *)
(***************************************************************************)

\* The call is a save_knowledge_base() that could not write the file.
SaveFailed(call) ==
    /\ call.op = "save_knowledge_base"
    /\ call.log = SaveLog("write_fails")

\* C16: when save_knowledge_base cannot write the file, what it returns
\* differs from what a successful save returns, and the knowledge base in
\* memory is as it was before the call.
C16_SaveFailureReported ==
    [][(SaveFailed(last') /\ (calls' # calls \/ running' # running))
            => /\ last'.ret # SaveReturn("ok")
               /\ kb' = kb]_vars

\* C17: a process that loads the knowledge file at any moment, while a
\* save is under way or after one failed part-way, reads a complete
\* document: json.load never rejects what it finds.
C17_ReaderSeesCompleteDocument ==
    last.op = "load_knowledge_base" => last.log # LoadLog(Truncated)

(***************************************************************************)
(* Overlapping calls.                                                      *)
(***************************************************************************)

\* Every stored record has its entry in sources, and every entry of
\* sources its record.
Consistent(kbv) ==
    LET urls == KBGet(kbv, "scraped_urls", EmptyDict)
        docs == KBGet(kbv, "uploaded_documents", EmptyDict)
        sources == KBGet(kbv, "sources", <<>>)
    IN  /\ \A i \in 1..Len(urls) :
                \E j \in 1..Len(sources) :
                    sources[j].type = "url" /\ sources[j].source = urls[i].key
        /\ \A i \in 1..Len(docs) :
                \E j \in 1..Len(sources) :
                    sources[j].type = "document" /\ sources[j].source = docs[i].key
        /\ \A j \in 1..Len(sources) :
                IF sources[j].type = "url"
                THEN DictHas(urls, sources[j].source)
                ELSE DictHas(docs, sources[j].source)

\* C18: however the calls overlap, at most one call is between two of its
\* awaits at a time, and search_knowledge and get_knowledge_summary never
\* run on a knowledge base in which an ingestion is half applied: a record
\* without its entry in sources, or an entry without its record.
C18_NoHalfAppliedIngestionObserved ==
    /\ Cardinality({t \in running : ~Suspended(t)}) <= 1
    /\ last.op \in {"search_knowledge", "get_knowledge_summary"} => Consistent(kb)

(***************************************************************************)
(* last_updated.                                                           *)
(***************************************************************************)

\* C19: after every successful mutation (URL ingestion, document
\* ingestion, scrape list update) last_updated holds the time of a
\* mutation, so it is not empty, and get_knowledge_summary reports it.
C19_LastUpdatedSet ==
    SucceededMutation(last) =>
        /\ KBGet(kb, "last_updated", "") # ""
        /\ GetKnowledgeSummary(kb).last_updated = KBGet(kb, "last_updated", "")

(***************************************************************************)
(* A page without a title.                                                 *)
(***************************************************************************)

\* C20: when the fetched page has no title, scrape_url returns the empty
\* result and the knowledge base is as it was before the call: no record
\* and no entry in sources is written for the page.
C20_UntitledPageIsAFailure ==
    [][\A page \in Pages :
            (/\ page.title = <<>>
             /\ last'.op = "scrape_url"
             /\ calls' = calls + 1
             /\ LET out == ScrapeUrlOutcome(kb, last'.arg.url, OkResponse(page))
                IN  kb' = out.kb /\ last'.ret = out.ret)
                => (ReturnedEmpty(last') /\ kb' = kb)]_vars

(***************************************************************************)
(* Relative links.                                                         *)
(***************************************************************************)

\* The href is a relative reference into the page's own site: it names no
\* scheme and no host.
IsSameSiteRelative(href) ==
    /\ UrlScheme(href) = ""
    /\ ~StartsWith(href, "//")

\* C21: every relative link of an ingested page, whether it starts with
\* "/" or is a path-relative or query-only reference, is stored in links as
\* an absolute URL on the host of the page.
C21_RelativeLinksResolved ==
    \A page \in Pages :
        (/\ last.op = "scrape_url"
         /\ ~ReturnedEmpty(last)
         /\ last.ret = BuildContent(last.arg.url, page))
            => \A k \in 1..Len(page.anchors) :
                    IsSameSiteRelative(page.anchors[k].href) =>
                        \E j \in 1..Len(last.ret.links) :
                            /\ last.ret.links[j].text = Strip(page.anchors[k].text)
                            /\ UrlScheme(last.ret.links[j].url) # ""
                            /\ Netloc(last.ret.links[j].url) = Netloc(last.arg.url)

(***************************************************************************)
(* The context built for a query.                                          *)
(***************************************************************************)

\* The ranked results that get_context_for_query builds its context from.
RankedFor(query) == SearchKnowledge(kb, query, DefaultMaxResults)

\* C22: get_context_for_query returns the fixed sentinel string, which is
\* not empty, exactly when the ranked results for the query are empty, and
\* it returns the empty string for no query and no knowledge base.
C22_SentinelIffNoResults ==
    last.op = "get_context_for_query" =>
        /\ (last.ret = NoContext) <=> (RankedFor(last.arg.query) = <<>>)
        /\ last.ret # ""
        /\ NoContext # ""

\* A context was asked for a query that nothing matches, and the sentinel
\* came back.
C22_Witness ==
    /\ last.op = "get_context_for_query"
    /\ RankedFor(last.arg.query) = <<>>
    /\ last.ret = NoContext
    /\ kb # DefaultKB

\* The results of the context call in `last`, and what each of them added
\* to the context.
ContextResults == RankedFor(last.arg.query)

ContextBlocksOfLast == ContextBlocks(Lower(last.arg.query), ContextResults)

\* The lines a block quotes from its record: those after "Relevant content:".
Quoted(block) ==
    IF \E i \in 1..Len(block) : block[i] = "Relevant content:"
    THEN LET first == CHOOSE i \in 1..Len(block) :
                        /\ block[i] = "Relevant content:"
                        /\ \A j \in 1..(i - 1) : block[j] # "Relevant content:"
         IN  SubSeq(block, first + 1, Len(block))
    ELSE <<>>

\* The entries of texts that contain the query of `last`, in their order.
MatchingIn(texts) ==
    LET Matches(text) == ContainsQuery(last.arg.query, text)
    IN  SelectSeq(texts, Matches)

BlockNames(block, result) ==
    block[1] = (IF result.type = "url" THEN "\nFrom " ELSE "\nFrom document ")
                    \o result.source \o ":"

\* C24: the blocks of a context are those of the ranked results of the
\* search, one per result and in rank order, and the number of entries
\* joined into the context is at most one header and 7 entries for each
\* of at most 5 results, whatever the knowledge base holds.
C24_BlocksInRankOrderAndBounded ==
    (last.op = "get_context_for_query" /\ ContextResults # <<>>) =>
        /\ last.ret = Join("\n", <<ContextHeader>> \o Flatten(ContextBlocksOfLast))
        /\ Len(ContextBlocksOfLast) = Len(ContextResults)
        /\ Len(ContextResults) <= 5
        /\ \A k \in 1..Len(ContextResults) :
            /\ BlockNames(ContextBlocksOfLast[k], ContextResults[k])
            /\ Len(ContextBlocksOfLast[k]) <= 7
            /\ k > 1 => ContextResults[k - 1].relevance >= ContextResults[k].relevance
        /\ Len(Flatten(ContextBlocksOfLast)) <= 7 * Len(ContextResults)

\* A context was built from a knowledge base in which more than 5 records
\* match the query; it has 5 blocks, the first of them a document's, which
\* the search met after every page.
C24_Witness ==
    /\ last.op = "get_context_for_query"
    /\ Len(SearchKnowledge(kb, last.arg.query, 6)) = 6
    /\ Len(ContextBlocksOfLast) = 5
    /\ ContextResults[1].type = "document"
    /\ ContextResults[2].type = "url"
    /\ last.ret # NoContext

(***************************************************************************)
(* The list of sources.                                                    *)
(***************************************************************************)

SourcesOf(kbv) == KBGet(kbv, "sources", <<>>)

IsPrefix(s, t) == Len(s) <= Len(t) /\ s = SubSeq(t, 1, Len(s))

\* The entry an ingestion that returned as `call` did is to have logged.
EntryOf(call) ==
    IF call.op = "scrape_url"
    THEN [type |-> "url", source |-> call.arg.url, title |-> call.ret.title]
    ELSE [type |-> "document", source |-> call.arg.filename, title |-> call.arg.filename]

\* This step is the return of an ingestion.
IngestionReturns ==
    \/ /\ last'.op = "scrape_url"
       /\ \E t \in running : t.op = "scrape_url" /\ running' = running \ {t}
    \/ /\ IsDocumentCall(last')
       /\ calls' = calls + 1
       /\ running' = running

\* C25: no step removes, reorders or rewrites an entry of sources: the
\* list before a step is a prefix of the list after it.  A step adds an
\* entry only as an ingestion returns with success, and then adds the
\* entry of that ingestion at the end, so that the entries stand in the
\* order in which the ingestions completed.
C25_SourcesAppendOnly ==
    [][/\ IsPrefix(SourcesOf(kb), SourcesOf(kb'))
       /\ (IngestionReturns /\ SucceededMutation(last'))
            => SourcesOf(kb') = Append(SourcesOf(kb), EntryOf(last'))
       /\ ~(IngestionReturns /\ SucceededMutation(last'))
            => SourcesOf(kb') = SourcesOf(kb)]_vars

\* Two ingestions have completed on the loop, a scrape after a document
\* ingestion, and sources holds the entry of the document before that of
\* the page.
C25_Witness ==
    /\ running = {}
    /\ last.op = "scrape_url"
    /\ SucceededMutation(last)
    /\ Len(SourcesOf(kb)) = 2
    /\ SourcesOf(kb)[1].type = "document"
    /\ SourcesOf(kb)[2] = EntryOf(last)

(***************************************************************************)
(* Exceptions that reach the caller.                                       *)
(***************************************************************************)

ScrapeList(kbv) == KBGet(kbv, "urls_to_scrape", <<>>)

NoUrlTwice(list) ==
    \A i, j \in 1..Len(list) : list[i] = list[j] => i = j

\* This step is a call of add_url_to_scrape_list.
AddUrlStep == last'.op = "add_url_to_scrape_list" /\ calls' = calls + 1

\* C27: the scrape list holds no URL twice.  Adding a URL that is not in
\* the list adds that URL and nothing else, and the save that follows,
\* where it succeeds, leaves the file holding the knowledge base; adding
\* a URL that is in the list changes neither the knowledge base nor the
\* file.
C27_ScrapeListIsASet ==
    /\ [](NoUrlTwice(ScrapeList(kb)))
    /\ [][AddUrlStep =>
            IF InList(ScrapeList(kb), last'.arg.url)
            THEN kb' = kb /\ disk' = disk /\ last'.log = ""
            ELSE /\ kb' = KBSet(kb, "urls_to_scrape",
                                Append(ScrapeList(kb), last'.arg.url))
                 /\ last'.log = SaveLog("ok") =>
                        disk' = FileOf(kb') /\ LoadKnowledgeBase(disk') = kb'
                 /\ last'.log # ""]_vars

\* A URL that was already in the list has been added again: the list holds
\* it once, beside another URL, and the file is the one written before.
C27_Witness ==
    /\ last.op = "add_url_to_scrape_list"
    /\ last.log = ""
    /\ InList(ScrapeList(kb), last.arg.url)
    /\ Len(ScrapeList(kb)) = 2
    /\ disk = FileOf(kb)

(***************************************************************************)
(* The calls that only read.                                               *)
(***************************************************************************)

ReadOps == {"search_knowledge", "get_context_for_query", "get_knowledge_summary"}

\* This step is a call of search_knowledge, get_context_for_query or
\* get_knowledge_summary.
ReadStep == last'.op \in ReadOps /\ calls' = calls /\ running' = running

\* The number of keys of a dict.
SizeOf(d) == Cardinality({d[i].key : i \in 1..Len(d)})

\* C28: a call of search_knowledge, get_context_for_query or
\* get_knowledge_summary leaves the knowledge base, every field of it, and
\* the knowledge file as they were, and the summary reports the current
\* sizes of scraped_urls, uploaded_documents and sources.
C28_ReadsChangeNothing ==
    [][ReadStep =>
        /\ kb' = kb
        /\ disk' = disk
        /\ last'.op = "get_knowledge_summary" =>
            /\ last'.ret.scraped_urls = SizeOf(KBGet(kb, "scraped_urls", EmptyDict))
            /\ last'.ret.uploaded_documents = SizeOf(KBGet(kb, "uploaded_documents", EmptyDict))
            /\ last'.ret.total_sources = Len(SourcesOf(kb))]_vars

\* A summary was taken of a knowledge base that holds a page, a document
\* and an entry for each, with nothing saved yet.
C28_Witness ==
    /\ last.op = "get_knowledge_summary"
    /\ last.ret.scraped_urls = 1
    /\ last.ret.uploaded_documents = 1
    /\ last.ret.total_sources = 2
    /\ disk = NoFile

(***************************************************************************)
(* Records and their entries in sources.                                   *)
(***************************************************************************)

\* By how much the entries of sources outnumber the records.
Surplus(kbv) ==
    Len(SourcesOf(kbv))
        - (GetKnowledgeSummary(kbv).scraped_urls
            + GetKnowledgeSummary(kbv).uploaded_documents)

\* Some key was ingested more than once: it has two entries.
SomeKeyReingested(kbv) ==
    \E i, j \in 1..Len(SourcesOf(kbv)) :
        /\ i < j
        /\ SourcesOf(kbv)[i].type = SourcesOf(kbv)[j].type
        /\ SourcesOf(kbv)[i].source = SourcesOf(kbv)[j].source

\* C29: in a knowledge base that began empty and with every key, whatever
\* was ingested since, every key of scraped_urls and uploaded_documents is
\* the source of an entry of its kind, every entry names a key that is
\* there, and the summary's total_sources is at least the sum of its two
\* record counts, and more than the sum exactly when some key was ingested
\* again.
C29_EntriesCoverRecords ==
    WellFormed(kb) =>
        /\ Consistent(kb)
        /\ GetKnowledgeSummary(kb).total_sources
                >= GetKnowledgeSummary(kb).scraped_urls
                    + GetKnowledgeSummary(kb).uploaded_documents
        /\ Surplus(kb) > 0 <=> SomeKeyReingested(kb)

\* A page was scraped twice and a document ingested: three entries for
\* two records.
C29_Witness ==
    /\ WellFormed(kb)
    /\ GetKnowledgeSummary(kb).scraped_urls = 1
    /\ GetKnowledgeSummary(kb).uploaded_documents = 1
    /\ GetKnowledgeSummary(kb).total_sources = 3
    /\ SomeKeyReingested(kb)

(***************************************************************************)
(* Overlapping scrapes of one URL.                                         *)
(***************************************************************************)

\* This step is the return of a scrape_url call that succeeded.
ScrapeSucceeds ==
    /\ last'.op = "scrape_url"
    /\ \E t \in running : t.op = "scrape_url" /\ running' = running \ {t}
    /\ ~ReturnedEmpty(last')

\* The places of url among the keys of a dict.
PlacesOf(d, url) == {i \in 1..Len(d) : d[i].key = url}

\* The title in the latest entry of sources for a page, "" if it has none.
LatestTitle(kbv, url) ==
    LET at == {j \in 1..Len(SourcesOf(kbv)) :
                    /\ SourcesOf(kbv)[j].type = "url"
                    /\ SourcesOf(kbv)[j].source = url}
    IN  IF at = {} THEN ""
        ELSE SourcesOf(kbv)[CHOOSE j \in at : \A k \in at : k <= j].title

\* C30: when calls of scrape_url overlap, each call that succeeds appends
\* its own entry to sources and leaves one record for its URL, the record
\* it built itself, so that the record that stays is that of the call that
\* completed last, whichever began first; and the record and its entry are
\* written in one step: no state has the record of one call with the
\* latest entry of another.
C30_LastCompletedScrapeWins ==
    /\ [][ScrapeSucceeds =>
            /\ SourcesOf(kb') = Append(SourcesOf(kb), EntryOf(last'))
            /\ Cardinality(PlacesOf(kb'.scraped_urls, last'.arg.url)) = 1
            /\ DictGet(kb'.scraped_urls, last'.arg.url) = last'.ret]_vars
    /\ [](WellFormed(kb) =>
            \A i \in 1..Len(kb.scraped_urls) :
                LatestTitle(kb, kb.scraped_urls[i].key) = kb.scraped_urls[i].val.title)

\* Two calls for one URL overlapped: the call begun second has returned
\* its record, which is the one stored, while the call begun first is
\* still waiting for its page.
C30_OverlapWitness ==
    /\ calls = 2
    /\ last.op = "scrape_url"
    /\ ~ReturnedEmpty(last)
    /\ \E t \in running :
        /\ t.id = 1
        /\ t.op = "scrape_url"
        /\ t.arg.url = last.arg.url
        /\ t.at = "text"
    /\ DictGet(kb.scraped_urls, last.arg.url) = last.ret

=============================================================================
